---- MODULE Spec2Model ----
(***************************************************************************)
(* dyndns-rs: one run of main() (src/src/main.rs).  The run reads its      *)
(* configuration from the environment, fetches the external IP from the    *)
(* IP-echo service, resolves HOST_NAME, compares the two strings and, when *)
(* they differ, builds the selected provider's client and calls update().  *)
(* Every fallible step ends in expect()/panic!(), so the first failure     *)
(* ends the process.                                                       *)
(*                                                                         *)
(* Text that the code trims, parses or formats is a sequence of one-       *)
(* character strings; opaque text (variable names, messages, identifiers)  *)
(* is a TLA+ string.                                                       *)
(***************************************************************************)
EXTENDS Integers, Sequences, FiniteSets, TLC

VARIABLES env, pc, provider, host_name, external_ip, host_ip,
          calls, updates, update_err, exit, panic_msg

vars == <<env, pc, provider, host_name, external_ip, host_ip,
          calls, updates, update_err, exit, panic_msg>>

(* ---------------------------------------------------------------- bounds *)

\* Longest run of whitespace the IP-echo service puts on each side of its body.
MaxPad == 1

\* Most socket addresses one resolution of HOST_NAME yields.
MaxAddrs == 2

(* ------------------------------------------------------- program constants *)

LookupPort == 80

Route53Ttl == 300

CloudflareTtl == 60

(* ------------------------------------------------------------ value shapes *)

None == [some |-> FALSE]

Some(v) == [some |-> TRUE, val |-> v]

Ok(v) == [ok |-> TRUE, val |-> v]

Err(e) == [ok |-> FALSE, err |-> e]

Pending == [state |-> "pending"]

SeqsUpTo(S, n) == UNION {[1..k -> S] : k \in 0..n}

(* -------------------------------------------------------------------- text *)

DigitChars == <<"0", "1", "2", "3", "4", "5", "6", "7", "8", "9">>

Whitespace == {" ", "\n", "\t", "\r"}

IsDigit(c) == \E d \in 1..10 : DigitChars[d] = c

DigitVal(c) == (CHOOSE d \in 1..10 : DigitChars[d] = c) - 1

RECURSIVE trim_start(_)
trim_start(s) ==
    IF s # <<>> /\ Head(s) \in Whitespace THEN trim_start(Tail(s)) ELSE s

RECURSIVE trim_end(_)
trim_end(s) ==
    IF s # <<>> /\ s[Len(s)] \in Whitespace
    THEN trim_end(SubSeq(s, 1, Len(s) - 1))
    ELSE s

\* str::trim: both ends, nothing inside.
trim(s) == trim_end(trim_start(s))

RECURSIVE SplitOn(_, _)
SplitOn(s, sep) ==
    IF \A i \in 1..Len(s) : s[i] # sep
    THEN <<s>>
    ELSE LET i == CHOOSE k \in 1..Len(s) :
                      s[k] = sep /\ \A j \in 1..(k - 1) : s[j] # sep
         IN <<SubSeq(s, 1, i - 1)>> \o SplitOn(SubSeq(s, i + 1, Len(s)), sep)

RECURSIVE DecValue(_)
DecValue(s) ==
    IF s = <<>> THEN 0
    ELSE 10 * DecValue(SubSeq(s, 1, Len(s) - 1)) + DigitVal(s[Len(s)])

RECURSIVE DecDigits(_)
DecDigits(n) ==
    IF n < 10 THEN <<DigitChars[n + 1]>>
    ELSE DecDigits(n \div 10) \o <<DigitChars[(n % 10) + 1]>>

\* One group of a dotted quad as Ipv4Addr::from_str reads it: one to three
\* decimal digits, no leading zero on a longer group, a value that fits u8.
IsOctetText(p) ==
    /\ Len(p) \in 1..3
    /\ \A i \in 1..Len(p) : IsDigit(p[i])
    /\ (Len(p) > 1 => p[1] # "0")
    /\ DecValue(p) <= 255

\* record_value.parse::<net::Ipv4Addr>(): exactly four groups separated by
\* dots and nothing else (no whitespace, no sign); otherwise AddrParseError.
ParseIpv4(s) ==
    LET parts == SplitOn(s, ".")
    IN IF Len(s) <= 15 /\ Len(parts) = 4 /\ \A i \in 1..4 : IsOctetText(parts[i])
       THEN Ok([i \in 1..4 |-> DecValue(parts[i])])
       ELSE Err("AddrParse")

\* Display of an Ipv4Addr: the four octets in decimal, joined by dots.
Ipv4ToString(o) ==
    DecDigits(o[1]) \o <<".">> \o DecDigits(o[2]) \o <<".">>
        \o DecDigits(o[3]) \o <<".">> \o DecDigits(o[4])

V4(a, b, c, d) == [v |-> 4, octets |-> <<a, b, c, d>>]

\* The one IPv6 address of the model, the loopback, with its Display text.
V6Loopback == [v |-> 6, text |-> <<":", ":", "1">>]

\* addr.ip().to_string()
IpToString(ip) == IF ip.v = 4 THEN Ipv4ToString(ip.octets) ELSE ip.text

(* ------------------------------------------------------------------ inputs *)

EnvVars == {"PROVIDER", "HOST_NAME", "HOSTED_ZONE_ID", "ASSUME_ROLE_ARN",
            "CLOUDFLARE_ZONE_IDENTIFIER", "CLOUDFLARE_IDENTIFIER",
            "CLOUDFLARE_TOKEN"}

ProviderTexts == {"route53", "cloudflare", "digitalocean"}

EnvValues(v) ==
    {None} \cup
    (CASE v = "PROVIDER" -> {Some(t) : t \in ProviderTexts}
       [] v = "HOST_NAME" -> {Some("home.example.com")}
       [] OTHER -> {Some("id-of-" \o v)})

Environments ==
    [PROVIDER : EnvValues("PROVIDER"),
     HOST_NAME : EnvValues("HOST_NAME"),
     HOSTED_ZONE_ID : EnvValues("HOSTED_ZONE_ID"),
     ASSUME_ROLE_ARN : EnvValues("ASSUME_ROLE_ARN"),
     CLOUDFLARE_ZONE_IDENTIFIER : EnvValues("CLOUDFLARE_ZONE_IDENTIFIER"),
     CLOUDFLARE_IDENTIFIER : EnvValues("CLOUDFLARE_IDENTIFIER"),
     CLOUDFLARE_TOKEN : EnvValues("CLOUDFLARE_TOKEN")]

IpA == <<"2", "0", "3", ".", "0", ".", "1", "1", "3", ".", "4">>

IpB == <<"2", "0", "3", ".", "0", ".", "1", "1", "3", ".", "5">>

IpBLeadingZero == <<"2", "0", "3", ".", "0", ".", "1", "1", "3", ".", "0", "5">>

NotAnIp == <<"n", "o", "t", "-", "a", "n", "-", "i", "p">>

BodyCores == {IpA, IpB, IpBLeadingZero, NotAnIp}

Pads == SeqsUpTo({"\n"}, MaxPad)

Bodies == {l \o c \o r : l \in Pads, c \in BodyCores, r \in Pads}

Statuses == {200, 304, 404, 500}

\* What the IP-echo exchange can give: no response at all, or a status line
\* followed by a body that may fail to arrive.
EchoResponses ==
    {[sent |-> FALSE, status |-> 0, body_ok |-> FALSE, body |-> <<>>]} \cup
    [sent : {TRUE}, status : Statuses, body_ok : BOOLEAN, body : Bodies]

IpAddrs == {V4(203, 0, 113, 4), V6Loopback}

SocketAddrs == {[ip |-> a, port |-> LookupPort] : a \in IpAddrs}

\* What the resolver can give: an io::Error, or the addresses in its order.
LookupResponses ==
    {[resolved |-> FALSE, addrs |-> <<>>]} \cup
    {[resolved |-> TRUE, addrs |-> l] : l \in SeqsUpTo(SocketAddrs, MaxAddrs)}

(* ---------------------------------------------------------- pure functions *)


\* required_env_var with unwrap_or_default in place of the panic.
required_env_var_or_default(v) ==
    IF env[v].some THEN Ok(env[v].val) ELSE Ok("")

\* env::var(v), or the panic "Missing value for env var {v}".
required_env_var(v) ==
    IF env[v].some THEN Ok(env[v].val)
    ELSE Err(<<"Missing value for env var", v>>)

\* Provider::from_str
Provider_from_str(s) ==
    CASE s = "route53" -> Ok("Route53")
      [] s = "cloudflare" -> Ok("Cloudflare")
      [] OTHER -> Err("not found")

\* reqwest's error_for_status turns a 4xx or 5xx status into an error and lets
\* every other status through.
error_for_status(status) ==
    IF status \in 400..599 THEN Err("status") ELSE Ok(status)

\* current(): send, error_for_status, text, trim.
current(resp) ==
    IF ~resp.sent THEN Err("send")
    ELSE IF ~error_for_status(resp.status).ok THEN Err("status")
    ELSE IF ~resp.body_ok THEN Err("body")
    ELSE Ok(trim(resp.body))


\* lookup() reporting an empty resolution as a failed one.
lookup_empty_is_error(resp) ==
    IF ~resp.resolved \/ resp.addrs = <<>> THEN Err("io")
    ELSE Ok(Some(trim(IpToString(resp.addrs[1].ip))))

\* lookup(): Err on a failed resolution, else the first address's IP as
\* trimmed text, or None when there is no address.
lookup(resp) ==
    IF ~resp.resolved THEN Err("io")
    ELSE IF resp.addrs = <<>> THEN Ok(None)
    ELSE Ok(Some(trim(IpToString(resp.addrs[1].ip))))


\* The comparison dropped: every run updates.
NeedsUpdate_always(h, e) == TRUE

\* The comparison inverted to never ask for an update.
NeedsUpdate_never(h, e) == FALSE

\* if host_ip != external_ip
NeedsUpdate(h, e) == h # e


\* The Route53 branch reading ASSUME_ROLE_ARN as an optional variable.
Route53RequiredVars_arn_optional == <<"HOSTED_ZONE_ID">>

\* The variables each provider branch reads, in the order it reads them.
Route53RequiredVars == <<"HOSTED_ZONE_ID", "ASSUME_ROLE_ARN">>

CloudflareRequiredVars ==
    <<"CLOUDFLARE_ZONE_IDENTIFIER", "CLOUDFLARE_IDENTIFIER", "CLOUDFLARE_TOKEN">>

\* The result of reading `names` in order: the first panic, or Ok.
ReadAll(names) ==
    IF \A i \in 1..Len(names) : required_env_var(names[i]).ok
    THEN Ok(TRUE)
    ELSE LET i == CHOOSE k \in 1..Len(names) :
                      /\ ~required_env_var(names[k]).ok
                      /\ \A j \in 1..(k - 1) : required_env_var(names[j]).ok
         IN Err(required_env_var(names[i]).err)

\* Route53Updater::update up to send(): the one UPSERT of an A record.
Route53Updater_update(zone, host, value) ==
    Ok([hosted_zone_id |-> zone, action |-> "UPSERT", type |-> "A",
        name |-> host, ttl |-> Route53Ttl, value |-> value])


\* CloudflareUpdater::update sending the value without parsing it.
CloudflareUpdater_update_unparsed(zone, id, host, value) ==
    Ok([zone_identifier |-> zone, identifier |-> id, name |-> host,
        ttl |-> CloudflareTtl, proxied |-> None, type |-> "A",
        content |-> value])

\* CloudflareUpdater::update up to request(): the value must parse first.
CloudflareUpdater_update(zone, id, host, value) ==
    LET record_ip == ParseIpv4(value)
    IN IF ~record_ip.ok THEN Err("AddrParse")
       ELSE Ok([zone_identifier |-> zone, identifier |-> id, name |-> host,
                ttl |-> CloudflareTtl, proxied |-> None, type |-> "A",
                content |-> record_ip.val])

(* ------------------------------------------------------------------- state *)

Init ==
    /\ env \in Environments
    /\ pc = "provider"
    /\ provider = None
    /\ host_name = None
    /\ external_ip = None
    /\ host_ip = None
    /\ calls = <<>>
    /\ updates = <<>>
    /\ update_err = None
    /\ exit = "running"
    /\ panic_msg = None

\* A panic unwinds out of main: the process ends with a failure status.
Panic(msg) ==
    /\ pc' = "done"
    /\ exit' = "failure"
    /\ panic_msg' = Some(msg)

\* main returns: the process ends with status 0.
Return ==
    /\ pc' = "done"
    /\ exit' = "success"
    /\ panic_msg' = panic_msg

Goto(next) ==
    /\ pc' = next
    /\ UNCHANGED <<exit, panic_msg>>

Issue(kind, req) == calls' = Append(calls, [kind |-> kind, req |-> req, resp |-> Pending])

Complete(resp) == calls' = [calls EXCEPT ![Len(calls)].resp = resp]

(* ----------------------------------------------------------------- actions *)

\* let provider_str = required_env_var("PROVIDER"); Provider::from_str(..)
LoadProvider ==
    /\ pc = "provider"
    /\ LET r == required_env_var("PROVIDER")
       IN IF ~r.ok
          THEN Panic(r.err) /\ provider' = provider
          ELSE LET p == Provider_from_str(r.val)
               IN IF ~p.ok
                  THEN Panic(<<"Unknown provider", r.val>>) /\ provider' = provider
                  ELSE Goto("host_name") /\ provider' = Some(p.val)
    /\ UNCHANGED <<env, host_name, external_ip, host_ip, calls, updates, update_err>>

\* let host_name = required_env_var("HOST_NAME");
LoadHostName ==
    /\ pc = "host_name"
    /\ LET r == required_env_var("HOST_NAME")
       IN IF ~r.ok
          THEN Panic(r.err) /\ host_name' = host_name
          ELSE Goto("current") /\ host_name' = Some(r.val)
    /\ UNCHANGED <<env, provider, external_ip, host_ip, calls, updates, update_err>>


\* current() spawned and not awaited: main goes on while the GET is out.
CurrentSend_detached ==
    /\ pc = "current"
    /\ Issue("ipecho", [url |-> "https://ifconfig.co", accept |-> "text/plain"])
    /\ Goto("lookup")
    /\ external_ip' = Some(<<>>)
    /\ UNCHANGED <<env, provider, host_name, host_ip, updates, update_err>>

\* current(): the GET to the IP-echo service goes out; main awaits it.
CurrentSend ==
    /\ pc = "current"
    /\ Issue("ipecho", [url |-> "https://ifconfig.co", accept |-> "text/plain"])
    /\ Goto("current_wait")
    /\ UNCHANGED <<env, provider, host_name, external_ip, host_ip, updates, update_err>>


\* current() tried again after a failure instead of the expect().
CurrentRecv_retry ==
    /\ pc = "current_wait"
    /\ \E resp \in EchoResponses :
          /\ Complete(resp)
          /\ LET r == current(resp)
             IN IF r.ok
                THEN Goto("lookup") /\ external_ip' = Some(r.val)
                ELSE Goto("current") /\ external_ip' = external_ip
    /\ UNCHANGED <<env, provider, host_name, host_ip, updates, update_err>>

\* current().await.expect("Unable to get current IP address")
CurrentRecv ==
    /\ pc = "current_wait"
    /\ \E resp \in EchoResponses :
          /\ Complete(resp)
          /\ LET r == current(resp)
             IN IF r.ok
                THEN Goto("lookup") /\ external_ip' = Some(r.val)
                ELSE Panic(<<"Unable to get current IP address", r.err>>)
                     /\ external_ip' = external_ip
    /\ UNCHANGED <<env, provider, host_name, host_ip, updates, update_err>>

\* lookup(&host_name, 80): the resolution starts; the thread blocks on it.
LookupCall ==
    /\ pc = "lookup"
    /\ Issue("dns", [host |-> host_name.val, port |-> LookupPort])
    /\ Goto("lookup_wait")
    /\ UNCHANGED <<env, provider, host_name, external_ip, host_ip, updates, update_err>>

\* .unwrap_or_else(|_| panic!("Unable to get IP address of host .."))
\* .unwrap_or_else(|| panic!("Missing IP address for host .."))
LookupReturn ==
    /\ pc = "lookup_wait"
    /\ \E resp \in LookupResponses :
          /\ Complete(resp)
          /\ LET r == lookup(resp)
             IN IF ~r.ok
                THEN Panic(<<"Unable to get IP address of host", host_name.val>>)
                     /\ host_ip' = host_ip
                ELSE IF ~r.val.some
                THEN Panic(<<"Missing IP address for host", host_name.val>>)
                     /\ host_ip' = host_ip
                ELSE Goto("compare") /\ host_ip' = Some(r.val.val)
    /\ UNCHANGED <<env, provider, host_name, external_ip, updates, update_err>>

\* if host_ip != external_ip { match provider { .. } }
Compare ==
    /\ pc = "compare"
    /\ IF NeedsUpdate(host_ip.val, external_ip.val)
       THEN Goto(IF provider.val = "Route53" THEN "r53_config" ELSE "cf_config")
       ELSE Return
    /\ UNCHANGED <<env, provider, host_name, external_ip, host_ip, calls, updates,
                   update_err>>

\* Provider::Route53: the two variables, then the client.
Route53Config ==
    /\ pc = "r53_config"
    /\ LET r == ReadAll(Route53RequiredVars)
       IN IF ~r.ok THEN Panic(r.err) ELSE Goto("r53_update")
    /\ UNCHANGED <<env, provider, host_name, external_ip, host_ip, calls, updates,
                   update_err>>

\* Route53Updater::new(..).update(host_name, external_ip): the change batch
\* is built and sent.
Route53Update ==
    /\ pc = "r53_update"
    /\ updates' = Append(updates, [provider |-> "Route53", host_name |-> host_name.val,
                                   record_value |-> external_ip.val])
    /\ LET r == Route53Updater_update(env["HOSTED_ZONE_ID"].val, host_name.val,
                                      external_ip.val)
       IN Issue("route53", r.val)
    /\ Goto("r53_wait")
    /\ UNCHANGED <<env, provider, host_name, external_ip, host_ip, update_err>>

\* .send().await ... .expect("Failed to update DNS records")
Route53Recv ==
    /\ pc = "r53_wait"
    /\ \E accepted \in BOOLEAN :
          /\ Complete([accepted |-> accepted])
          /\ IF accepted
             THEN Return /\ update_err' = update_err
             ELSE Panic(<<"Failed to update DNS records", "route53 error">>)
                  /\ update_err' = Some("Route53")
    /\ UNCHANGED <<env, provider, host_name, external_ip, host_ip, updates>>

\* Provider::Cloudflare: the three variables, then the client, whose
\* construction can fail.
CloudflareConfig ==
    /\ pc = "cf_config"
    /\ LET r == ReadAll(CloudflareRequiredVars)
       IN IF ~r.ok THEN Panic(r.err)
          ELSE \E built \in BOOLEAN :
                  IF built THEN Goto("cf_update")
                  ELSE Panic(<<"Couldn't make Cloudflare API client", "">>)
    /\ UNCHANGED <<env, provider, host_name, external_ip, host_ip, calls, updates,
                   update_err>>

\* CloudflareUpdater::new(..).update(host_name, external_ip): parse, then
\* the request; an AddrParse error comes back without a request.
CloudflareUpdate ==
    /\ pc = "cf_update"
    /\ updates' = Append(updates, [provider |-> "Cloudflare", host_name |-> host_name.val,
                                   record_value |-> external_ip.val])
    /\ LET r == CloudflareUpdater_update(env["CLOUDFLARE_ZONE_IDENTIFIER"].val,
                                         env["CLOUDFLARE_IDENTIFIER"].val,
                                         host_name.val, external_ip.val)
       IN IF r.ok
          THEN Issue("cloudflare", r.val) /\ Goto("cf_wait") /\ update_err' = update_err
          ELSE /\ calls' = calls
               /\ update_err' = Some(r.err)
               /\ Panic(<<"Failed to update DNS records", "addr parse error">>)
    /\ UNCHANGED <<env, provider, host_name, external_ip, host_ip>>

\* self.client.request(&endpoint).await? ... .expect("Failed to update DNS records")
CloudflareRecv ==
    /\ pc = "cf_wait"
    /\ \E accepted \in BOOLEAN :
          /\ Complete([accepted |-> accepted])
          /\ IF accepted
             THEN Return /\ update_err' = update_err
             ELSE Panic(<<"Failed to update DNS records", "cloudflare error">>)
                  /\ update_err' = Some("Cloudflare")
    /\ UNCHANGED <<env, provider, host_name, external_ip, host_ip, updates>>

Next ==
    \/ LoadProvider
    \/ LoadHostName
    \/ CurrentSend
    \/ CurrentRecv
    \/ LookupCall
    \/ LookupReturn
    \/ Compare
    \/ Route53Config
    \/ Route53Update
    \/ Route53Recv
    \/ CloudflareConfig
    \/ CloudflareUpdate
    \/ CloudflareRecv

Spec == Init /\ [][Next]_vars

(* ------------------------------------------------------------- vocabulary *)

Exited == exit # "running"

Completed(i) == calls[i].resp # Pending

CallsOf(kind) == {i \in DOMAIN calls : calls[i].kind = kind}

ProviderCalls == CallsOf("route53") \cup CallsOf("cloudflare")

InFlight == {i \in DOMAIN calls : ~Completed(i)}

ConfigPanics == {"Missing value for env var", "Unknown provider"}

ConfigError == panic_msg.some /\ panic_msg.val[1] \in ConfigPanics

BothObtained == external_ip.some /\ host_ip.some

IpsEqual == BothObtained /\ external_ip.val = host_ip.val

IpsUnequal == BothObtained /\ external_ip.val # host_ip.val

\* The IP-echo exchange as current() takes it: a response arrived, its status
\* is no 4xx or 5xx, and its body arrived.
EchoAccepted(i) ==
    /\ calls[i].kind = "ipecho"
    /\ Completed(i)
    /\ calls[i].resp.sent
    /\ calls[i].resp.status \notin 400..599
    /\ calls[i].resp.body_ok

\* The IP-echo exchange failed, a failure being a transport failure or any
\* status outside 2xx.
EchoFailedNon2xx(i) ==
    /\ calls[i].kind = "ipecho"
    /\ Completed(i)
    /\ (~calls[i].resp.sent \/ calls[i].resp.status \notin 200..299
            \/ ~calls[i].resp.body_ok)

\* The IP-echo exchange failed, a failure being a transport failure or a
\* 4xx or 5xx status.
EchoFailed4xx5xx(i) ==
    /\ calls[i].kind = "ipecho"
    /\ Completed(i)
    /\ (~calls[i].resp.sent \/ calls[i].resp.status \in 400..599
            \/ ~calls[i].resp.body_ok)

LookupGaveAddress(i) ==
    /\ calls[i].kind = "dns"
    /\ Completed(i)
    /\ calls[i].resp.resolved
    /\ calls[i].resp.addrs # <<>>

LookupFailed(i) ==
    /\ calls[i].kind = "dns"
    /\ Completed(i)
    /\ (~calls[i].resp.resolved \/ calls[i].resp.addrs = <<>>)

ProviderRejected(i) ==
    /\ calls[i].kind \in {"route53", "cloudflare"}
    /\ Completed(i)
    /\ ~calls[i].resp.accepted

\* A failed step stops the run: it is the last call of the run, the run has
\* ended in failure, and nothing more can happen.
StopsRun(i) ==
    /\ i = Len(calls)
    /\ exit = "failure"
    /\ ~ENABLED Next

(* ------------------------------------------------------------------ claims *)

\* C1: when the trimmed external IP that current() returned equals the
\* trimmed published IP that lookup() returned, no update call of either
\* provider is made and no provider request goes out.
C1_EqualIpsNeverUpdate ==
    IpsEqual => updates = <<>> /\ ProviderCalls = {}

C1_Witness_EqualIpsRunEnded ==
    /\ IpsEqual
    /\ exit = "success"
    /\ external_ip.val = IpA

\* C2: a run that obtained both IPs and found them unequal makes exactly one
\* update call, with the configured HOST_NAME and the external IP.
C2_UnequalIpsExactlyOneUpdate ==
    (Exited /\ IpsUnequal) =>
        /\ Len(updates) = 1
        /\ updates[1].host_name = env["HOST_NAME"].val
        /\ updates[1].record_value = external_ip.val

\* C3: every configuration error (a missing variable, an unknown PROVIDER)
\* ends the run before any network call has been issued.
C3_ConfigErrorsBeforeNetwork ==
    ConfigError => calls = <<>>

\* C4: with HOST_NAME unset no network call and no update call is ever
\* issued, and the run can only end in a configuration error.
C4_HostNameUnsetNoNetwork ==
    ~env["HOST_NAME"].some =>
        /\ calls = <<>>
        /\ updates = <<>>
        /\ exit # "success"
        /\ (Exited => ConfigError)
        /\ ENABLED Next \/ Exited

C4_Witness_HostNameMissingPanic ==
    /\ ~env["HOST_NAME"].some
    /\ exit = "failure"
    /\ panic_msg = Some(<<"Missing value for env var", "HOST_NAME">>)

\* The runs C5 is about: Route53 selected, HOSTED_ZONE_ID set,
\* ASSUME_ROLE_ARN unset, both IPs obtained and unequal, the run over.
C5_Case ==
    /\ Exited
    /\ provider = Some("Route53")
    /\ env["HOSTED_ZONE_ID"].some
    /\ ~env["ASSUME_ROLE_ARN"].some
    /\ IpsUnequal

\* C5 as stated: ASSUME_ROLE_ARN is optional, so such a run does not end in
\* a configuration error and issues the Route53 update call.
C5_AssumeRoleArnOptional ==
    C5_Case =>
        /\ ~ConfigError
        /\ \E i \in DOMAIN updates : updates[i].provider = "Route53"

\* C5 amended: ASSUME_ROLE_ARN is required, so such a run ends in the
\* configuration error naming ASSUME_ROLE_ARN, with no update call and no
\* Route53 request.
C5_AssumeRoleArnRequired ==
    C5_Case =>
        /\ exit = "failure"
        /\ panic_msg = Some(<<"Missing value for env var", "ASSUME_ROLE_ARN">>)
        /\ updates = <<>>
        /\ ProviderCalls = {}

C5_Witness_ArnMissingPanic ==
    /\ C5_Case
    /\ panic_msg = Some(<<"Missing value for env var", "ASSUME_ROLE_ARN">>)

\* What C6 says of every failure other than the IP-echo one: a configuration
\* error, a failed lookup, a failed update each end the run in failure with
\* no later call, and a run that ends with status 0 had no failed step.
C6_OtherFailuresStop ==
    /\ \A i \in DOMAIN calls : (LookupFailed(i) \/ ProviderRejected(i)) => StopsRun(i)
    /\ ConfigError => exit = "failure" /\ ~ENABLED Next
    /\ update_err.some => exit = "failure" /\ ~ENABLED Next
    /\ exit = "success" =>
          \A i \in DOMAIN calls :
              Completed(i) /\ ~LookupFailed(i) /\ ~ProviderRejected(i)

C7_ZeroAddressesDistinctFromLookupFailure ==
    \A i \in CallsOf("dns") :
        Completed(i) =>
            /\ (calls[i].resp.resolved /\ calls[i].resp.addrs = <<>>) =>
                  /\ exit = "failure"
                  /\ panic_msg = Some(<<"Missing IP address for host", host_name.val>>)
                  /\ updates = <<>> /\ ProviderCalls = {}
            /\ ~calls[i].resp.resolved =>
                  /\ exit = "failure"
                  /\ panic_msg = Some(<<"Unable to get IP address of host", host_name.val>>)
                  /\ updates = <<>> /\ ProviderCalls = {}

C7_Witness_ZeroAddresses ==
    /\ CallsOf("dns") # {}
    /\ \E i \in CallsOf("dns") :
          Completed(i) /\ calls[i].resp.resolved /\ calls[i].resp.addrs = <<>>
    /\ Exited

\* C8: a Cloudflare update() whose value does not parse as IPv4 returns
\* AddrParse, not the Cloudflare error, and sends no request; every request
\* that goes to Cloudflare carries the parsed IPv4 value of its update().
C8_CloudflareRejectsNonIpv4BeforeRequest ==
    /\ \A u \in DOMAIN updates :
          (updates[u].provider = "Cloudflare" /\ ~ParseIpv4(updates[u].record_value).ok) =>
              /\ update_err = Some("AddrParse")
              /\ CallsOf("cloudflare") = {}
              /\ exit = "failure"
    /\ \A i \in CallsOf("cloudflare") :
          /\ Len(updates) = 1
          /\ ParseIpv4(updates[1].record_value).ok
          /\ calls[i].req.content = ParseIpv4(updates[1].record_value).val
          /\ update_err # Some("AddrParse")

C8_Witness_NotAnIpRejected ==
    /\ Len(updates) = 1
    /\ updates[1].provider = "Cloudflare"
    /\ updates[1].record_value = NotAnIp
    /\ update_err = Some("AddrParse")

\* C9 as stated: a run that exits with status 0 has posted the metric to the
\* push gateway before exiting.
C9_SuccessImpliesMetricsPush ==
    exit = "success" => \E i \in CallsOf("metrics") : Completed(i)

\* C9 amended: a run that exits with status 0 has obtained both IPs and has
\* either found them equal and updated nothing, or found them unequal and had
\* its one update accepted; it has made no metrics push.  A run that ends
\* otherwise ends in a panic.
C9_SuccessWithoutMetricsPush ==
    /\ exit = "success" =>
          /\ CallsOf("metrics") = {}
          /\ BothObtained
          /\ \/ IpsEqual /\ updates = <<>> /\ ProviderCalls = {}
             \/ /\ IpsUnequal
                /\ Len(updates) = 1
                /\ ProviderCalls = {Len(calls)}
                /\ Completed(Len(calls))
                /\ calls[Len(calls)].resp.accepted
    /\ exit = "failure" => panic_msg.some

C9_Witness_UpdateThenSuccess ==
    /\ exit = "success"
    /\ IpsUnequal
    /\ Len(updates) = 1

====
